---- MODULE Spec2Model ----
(***************************************************************************)
(* A model of tsrc's workspace synchronisation engine: the git primitives  *)
(* of tsrc/git.py (reset_repo and the commands it drives), the batch       *)
(* collectors of tsrc/cli/reset.py and tsrc/cli/status.py, the manifest    *)
(* model of tsrc/manifest.py and the snapshot generator.                   *)
(***************************************************************************)
EXTENDS Integers, Sequences, FiniteSets, TLC

VARIABLES
    repo,            \* reset_repo: the working copy reset_repo is called on
    target,          \* reset_repo: the (branch, sha1) pair of the snapshot
    outcome,         \* reset_repo: what the last call returned or raised
    calls,           \* reset_repo: number of calls made so far
    workspace,       \* batch: the working copy under each src of the workspace
    repos,           \* batch: the repositories handed to the collector, in order
    index,           \* batch: how many of them have been processed
    collector,       \* batch: "reset" (ResetCollector) or "status" (StatusCollector)
    reseted_repos,   \* ResetCollector.reseted_repos, an OrderedDict
    statuses,        \* StatusCollector.statuses, an OrderedDict
    processed,       \* batch: what each call of process did, in call order
    document,        \* manifest: the manifest document on disk
    manifest,        \* manifest: the Manifest object that load returned
    loaded,          \* manifest: what load did
    selection,       \* manifest: what the last get_repos returned or raised
    loads,           \* manifest: number of Manifest.load calls on the object
    tree,            \* snapshot: the directories of the workspace, by src
    seen,            \* snapshot: the workspace as the last snapshot run saw it
    yml,             \* snapshot: the destination file of the snapshot
    snap,            \* snapshot: what the last snapshot run did
    command          \* reset command: where main is and what it did so far

resetVars == <<repo, target, outcome, calls>>
batchVars == <<workspace, repos, index, collector, reseted_repos, statuses,
               processed>>

manifestVars == <<document, manifest, loaded, selection, loads>>
snapshotVars == <<tree, seen, yml, snap>>

vars == <<resetVars, batchVars, manifestVars, snapshotVars, command>>

(***************************************************************************)
(* Bounds                                                                  *)
(***************************************************************************)
\* commits are 1..MaxCommit; Parent(c) = c \div 2, so 2 and 3 diverge from 1
MaxCommit == 3
\* reset_repo is called at most MaxCalls times in a row on one working copy
MaxCalls == 2
\* a collector is handed at most MaxRepos repositories
MaxRepos == 2
\* a manifest document declares at most MaxConfigRepos repositories
MaxConfigRepos == 2
\* at most MaxSnapshots snapshots are taken of one workspace
MaxSnapshots == 2

(***************************************************************************)
(* Values                                                                  *)
(***************************************************************************)
\* "no commit": an absent ref, or the HEAD of a repository with no commits
NoCommit == 0
\* Python's None given as sha1 (a manifest entry without a sha1 field)
NoneSha == 0
\* a sha1 that names no commit of the repository
UnknownSha == MaxCommit + 1
\* None / "" as a tracking ref
NoRef == <<>>
\* no exception raised
NoExc == ""

Commits == 1..MaxCommit
Branches == {"master", "dev"}
\* what `git rev-parse --abbrev-ref HEAD` prints on a detached HEAD
DetachedHead == "HEAD"

\* A remote ref name is kept as the list of its '/'-separated components,
\* which is what str.split('/') returns for it.
OriginMaster == <<"origin", "master">>
OriginDev == <<"origin", "dev">>
ForkMaster == <<"fork", "master">>
\* the line `git branch -r` prints for the symbolic ref origin/HEAD:
\* "origin/HEAD -> origin/master"
OriginHeadLine == <<"origin", "HEAD -> origin", "master">>
RemoteBranches == {ForkMaster, OriginDev, OriginMaster}
\* the order in which git lists remote refs (sorted by ref name)
RemoteRefOrder == <<ForkMaster, OriginHeadLine, OriginDev, OriginMaster>>

Parent(c) == c \div 2

RECURSIVE IsAncestorEq(_, _)
\* a is b or an ancestor of b
IsAncestorEq(a, b) ==
    IF b = NoCommit \/ a = NoCommit THEN FALSE
    ELSE IF a = b THEN TRUE
    ELSE IF b < a THEN FALSE
    ELSE IsAncestorEq(a, Parent(b))

(***************************************************************************)
(* The working copy, as git sees it                                        *)
(***************************************************************************)
HeadCommit(r) == IF r.cur = DetachedHead THEN r.detached ELSE r.local[r.cur]

\* the commit a remote ref line resolves to
RefCommit(r, ref) ==
    IF ref \in RemoteBranches THEN r.refs[ref]
    ELSE IF ref = OriginHeadLine /\ r.origin_head THEN r.refs[OriginMaster]
    ELSE NoCommit

SetHead(r, c) ==
    IF r.cur = DetachedHead THEN [r EXCEPT !.detached = c]
    ELSE [r EXCEPT !.local[r.cur] = c]

\* the remote-tracking refs a working copy can hold
RemoteStates ==
    { [refs |-> [ref \in RemoteBranches |->
                    IF ref = OriginMaster THEN om
                    ELSE IF ref = OriginDev THEN od ELSE fm],
       origin_head |-> oh] :
        om \in {NoCommit} \cup Commits, od \in {NoCommit, 2},
        fm \in {NoCommit, MaxCommit}, oh \in BOOLEAN }

\* the local branches and HEAD a working copy can hold; a repository with
\* no commit at all is on "master" with no branch
LocalStates ==
    { l \in [ cur : Branches \cup {DetachedHead},
              detached : {NoCommit, 1},
              local : { [b \in Branches |-> IF b = "master" THEN m ELSE d] :
                          m \in {NoCommit} \cup Commits, d \in {NoCommit, 2} },
              upstream : { [b \in Branches |-> IF b = "master" THEN um ELSE ud] :
                          um \in {NoRef, OriginMaster}, ud \in {NoRef, OriginDev} } ] :
        /\ (l.cur = DetachedHead) <=> (l.detached # NoCommit)
        /\ l.cur = DetachedHead =>
              l.local["dev"] = NoCommit /\ l.upstream["master"] = NoRef
        /\ l.cur \in Branches =>
              \/ l.local[l.cur] # NoCommit
              \/ l.cur = "master" /\ l.local["dev"] = NoCommit
        /\ \A b \in Branches : l.upstream[b] # NoRef => l.local[b] # NoCommit }

\* a working copy: HEAD and the local branches, the upstream configuration,
\* the remote-tracking refs, the local changes to tracked files ("conflicting"
\* ones touch files that differ between the commits), untracked and newly
\* added files, the tags on HEAD and the number of stash entries
WorkingCopy(l, s, ch, untracked, added, tag, stash) ==
    [exists |-> TRUE, cur |-> l.cur, detached |-> l.detached,
     local |-> l.local, upstream |-> l.upstream,
     refs |-> s.refs, origin_head |-> s.origin_head, changes |-> ch,
     untracked |-> untracked, added |-> added, tag |-> tag, stash |-> stash]

WorkingCopies ==
    { WorkingCopy(l, s, ch, untracked, FALSE, "", 0) :
        l \in LocalStates,
        s \in {x \in RemoteStates :
                  x.origin_head => x.refs[OriginMaster] # NoCommit},
        ch \in {"clean", "dirty", "conflicting"},
        untracked \in BOOLEAN }

(***************************************************************************)
(* git commands: each gives the return code, the output and the working    *)
(* copy after the command                                                  *)
(***************************************************************************)
\* git fetch --all --prune: it fails when a remote cannot be reached.  The
\* refs of a working copy stand for the branches its remotes hold at the
\* time of the call, which a successful fetch makes the remote-tracking refs.
git_fetch(r, net) ==
    IF net THEN [rc |-> 0, out |-> <<>>, repo |-> r]
    ELSE [rc |-> 1, out |-> <<>>, repo |-> r]

\* git rev-parse --abbrev-ref HEAD
git_rev_parse_abbrev_ref_HEAD(r) ==
    IF HeadCommit(r) = NoCommit THEN [rc |-> 128, out |-> "fatal", repo |-> r]
    ELSE [rc |-> 0, out |-> r.cur, repo |-> r]

\* git checkout <branch>
git_checkout(r, branch) ==
    LET remotes == {ref \in RemoteBranches :
                       ref[2] = branch /\ r.refs[ref] # NoCommit}
        moves == HeadCommit(r) #
                   (IF r.local[branch] # NoCommit THEN r.local[branch]
                    ELSE IF Cardinality(remotes) = 1
                         THEN r.refs[CHOOSE ref \in remotes : TRUE]
                         ELSE HeadCommit(r))
    IN  IF r.changes = "conflicting" /\ moves
        THEN [rc |-> 1, out |-> <<>>, repo |-> r]
        ELSE IF r.local[branch] # NoCommit
        THEN [rc |-> 0, out |-> <<>>,
              repo |-> [r EXCEPT !.cur = branch, !.detached = NoCommit]]
        ELSE IF Cardinality(remotes) = 1
        THEN LET ref == CHOOSE x \in remotes : TRUE
             IN [rc |-> 0, out |-> <<>>,
                 repo |-> [r EXCEPT !.cur = branch, !.detached = NoCommit,
                                    !.local[branch] = r.refs[ref],
                                    !.upstream[branch] = ref]]
        ELSE [rc |-> 1, out |-> <<>>, repo |-> r]

\* git rev-parse --abbrev-ref --symbolic-full-name @{upstream}
git_rev_parse_upstream(r) ==
    IF /\ r.cur \in Branches
       /\ r.upstream[r.cur] # NoRef
       /\ RefCommit(r, r.upstream[r.cur]) # NoCommit
    THEN [rc |-> 0, out |-> r.upstream[r.cur], repo |-> r]
    ELSE [rc |-> 128, out |-> NoRef, repo |-> r]

\* git branch -r --contains <sha1>: the lines printed, in git's order
git_branch_r_contains(r, sha1) ==
    IF sha1 \notin Commits THEN [rc |-> 129, out |-> <<>>, repo |-> r]
    ELSE [rc |-> 0,
          out |-> SelectSeq(RemoteRefOrder,
                     LAMBDA ref : IsAncestorEq(sha1, RefCommit(r, ref))),
          repo |-> r]

\* git merge --ff-only <ref>
git_merge_ff_only(r, ref) ==
    LET t == RefCommit(r, ref)
        h == HeadCommit(r)
    IN  IF t = NoCommit \/ h = NoCommit THEN [rc |-> 1, out |-> <<>>, repo |-> r]
        ELSE IF IsAncestorEq(t, h) THEN [rc |-> 0, out |-> <<>>, repo |-> r]
        ELSE IF IsAncestorEq(h, t) /\ r.changes # "conflicting"
        THEN [rc |-> 0, out |-> <<>>, repo |-> SetHead(r, t)]
        ELSE [rc |-> 128, out |-> <<>>, repo |-> r]

\* git reset <sha1>: the branch moves, the changes to the files stay
git_reset_mixed(r, sha1) ==
    IF sha1 \in Commits
    THEN [rc |-> 0, out |-> <<>>, repo |-> SetHead(r, sha1)]
    ELSE [rc |-> 128, out |-> <<>>, repo |-> r]

\* git reset --hard <sha1>
git_reset_hard(r, sha1) ==
    IF sha1 \in Commits
    THEN [rc |-> 0, out |-> <<>>,
          repo |-> [SetHead(r, sha1) EXCEPT !.changes = "clean",
                                            !.added = FALSE]]
    ELSE [rc |-> 128, out |-> <<>>, repo |-> r]

(***************************************************************************)
(* tsrc/git.py.  A call is threaded through a context c: the working copy, *)
(* the git commands run so far, the exception raised (NoExc while none)    *)
(* and the locals of reset_repo.  A log entry keeps the command, its       *)
(* return code, HEAD's commit before it and the commit of its argument.    *)
(***************************************************************************)
Context(r) ==
    [repo |-> r, log |-> <<>>, exc |-> NoExc, rc |-> 0, out |-> <<>>,
     status |-> <<>>, current_branch |-> "", tracking_ref |-> NoRef,
     candidates |-> <<>>, candidates_none |-> FALSE]

Raise(c, kind) == [c EXCEPT !.exc = kind]

Raised(c) == c.exc # NoExc

\* the exceptions `except Error` catches: tsrc.git.Error and its subclasses
GitErrors == {"Error", "CommandError", "NoSuchWorkingPath", "NoTrackingRef"}

\* run / run_captured: assert_working_path, then the command; a None among
\* the arguments makes subprocess raise TypeError before git is started
run_any(c, cmd, has_none, arg, res, check) ==
    IF ~c.repo.exists THEN Raise(c, "NoSuchWorkingPath")
    ELSE IF has_none THEN Raise(c, "TypeError")
    ELSE [c EXCEPT !.repo = res.repo, !.rc = res.rc, !.out = res.out,
                   !.log = Append(@, [cmd |-> cmd, rc |-> res.rc,
                                      head |-> HeadCommit(c.repo),
                                      arg |-> arg]),
                   !.exc = IF check /\ res.rc # 0 THEN "CommandError" ELSE @]

run(c, cmd, has_none, arg, res) == run_any(c, cmd, has_none, arg, res, TRUE)

run_captured(c, cmd, has_none, arg, res, check) ==
    run_any(c, cmd, has_none, arg, res, check)

\* get_current_branch, after its run_captured
current_branch_of(c) ==
    IF Raised(c) THEN c
    ELSE IF c.out = DetachedHead THEN Raise(c, "Error")
    ELSE [c EXCEPT !.current_branch = c.out]

get_current_branch(c) ==
    current_branch_of(
        run_captured(c, "rev-parse --abbrev-ref HEAD", FALSE, NoCommit,
                     git_rev_parse_abbrev_ref_HEAD(c.repo), TRUE))

\* get_tracking_ref, after its run_captured
tracking_ref_of(c) ==
    IF Raised(c) THEN c
    ELSE [c EXCEPT !.tracking_ref = IF c.rc = 0 THEN c.out ELSE NoRef]

get_tracking_ref(c) ==
    tracking_ref_of(
        run_captured(c, "rev-parse @{upstream}", FALSE, NoCommit,
                     git_rev_parse_upstream(c.repo), FALSE))

\* guess_tracking_ref, after its run_captured: the candidates, or None
candidates_of(c) ==
    IF Raised(c) THEN c
    ELSE IF c.rc = 0
    THEN [c EXCEPT !.candidates = c.out, !.candidates_none = FALSE]
    ELSE [c EXCEPT !.candidates = <<>>, !.candidates_none = TRUE]

guess_tracking_ref(c, sha1) ==
    candidates_of(
        run_captured(c, "branch -r --contains", sha1 = NoneSha, NoCommit,
                     git_branch_r_contains(c.repo, sha1), FALSE))

RECURSIVE first_candidate(_, _, _)
\* the loop of reset_repo over the candidates, from the i-th on:
\* `remote, remote_branch = candidate.split('/')` needs exactly two parts
first_candidate(candidates, branch, i) ==
    IF i > Len(candidates) THEN [exc |-> NoExc, ref |-> NoRef]
    ELSE IF Len(candidates[i]) # 2 THEN [exc |-> "ValueError", ref |-> NoRef]
    ELSE IF branch = candidates[i][2] THEN [exc |-> NoExc, ref |-> candidates[i]]
    ELSE first_candidate(candidates, branch, i + 1)

\* reset_repo, after the loop: `if not tracking_ref: raise NoTrackingRef`
use_candidate(c, pick) ==
    IF pick.exc # NoExc THEN Raise(c, pick.exc)
    ELSE IF pick.ref = NoRef THEN Raise(c, "NoTrackingRef")
    ELSE [c EXCEPT !.tracking_ref = pick.ref]

\* reset_repo, `for candidate in candidates:` (None is not iterable)
pick_candidate(c, branch) ==
    IF Raised(c) THEN c
    ELSE IF c.candidates_none THEN Raise(c, "TypeError")
    ELSE use_candidate(c, first_candidate(c.candidates, branch, 1))

\* reset_repo, `if not tracking_ref:` block
guess_step(c, branch, sha1) ==
    pick_candidate(guess_tracking_ref(c, sha1), branch)

\* reset_repo, `run(repo, "fetch", "--all", "--prune")`
fetch_step(c, net) ==
    run(c, "fetch", FALSE, NoCommit, git_fetch(c.repo, net))

\* reset_repo, `if branch != current_branch: run(repo, "checkout", branch)`
checkout_if_needed(c, branch) ==
    IF Raised(c) THEN c
    ELSE IF branch # c.current_branch
    THEN run(c, "checkout", FALSE, NoCommit, git_checkout(c.repo, branch))
    ELSE c

\* reset_repo, from get_current_branch to the checkout
checkout_step(c, branch) ==
    IF Raised(c) THEN c ELSE checkout_if_needed(get_current_branch(c), branch)

\* reset_repo, `if not tracking_ref:`
guess_if_needed(c, branch, sha1) ==
    IF Raised(c) THEN c
    ELSE IF c.tracking_ref = NoRef THEN guess_step(c, branch, sha1)
    ELSE c

\* reset_repo, from get_tracking_ref to the guessed tracking ref
tracking_step(c, branch, sha1) ==
    IF Raised(c) THEN c
    ELSE guess_if_needed(get_tracking_ref(c), branch, sha1)

\* mutant: the merge's return code is not checked
merge_step_unchecked(c) ==
    IF Raised(c) THEN c
    ELSE run_captured(c, "merge --ff-only", FALSE,
                      RefCommit(c.repo, c.tracking_ref),
                      git_merge_ff_only(c.repo, c.tracking_ref), FALSE)

\* reset_repo, `run_captured(repo, "merge", "--ff-only", tracking_ref)`
merge_step(c) ==
    IF Raised(c) THEN c
    ELSE run_captured(c, "merge --ff-only", FALSE,
                      RefCommit(c.repo, c.tracking_ref),
                      git_merge_ff_only(c.repo, c.tracking_ref), TRUE)

\* mutant: the hard reset goes to the tracking ref, not to the given ref
reset_to_tracking(c, ref) ==
    IF Raised(c) THEN c
    ELSE run(c, "reset --hard", ref = NoneSha,
             RefCommit(c.repo, c.tracking_ref),
             git_reset_hard(c.repo, RefCommit(c.repo, c.tracking_ref)))

\* reset(repo, ref)
reset(c, ref) ==
    IF Raised(c) THEN c
    ELSE run(c, "reset --hard", ref = NoneSha,
             IF ref \in Commits THEN ref ELSE NoCommit,
             git_reset_hard(c.repo, ref))

\* "Reseted to {}".format(sha1)
ResetDescription(sha1) == <<"Reseted to", sha1>>

\* reset_repo, `return "Reseted to {}".format(sha1)`, or the exception
reset_repo_returns(c, sha1) ==
    [repo |-> c.repo, log |-> c.log, exc |-> c.exc,
     tracking_ref |-> c.tracking_ref,
     ret |-> IF Raised(c) THEN <<>> ELSE ResetDescription(sha1)]

reset_repo(r, net, branch, sha1) ==
    reset_repo_returns(
        reset(merge_step(tracking_step(checkout_step(
                  fetch_step(Context(r), net), branch), branch, sha1)),
              sha1),
        sha1)

(***************************************************************************)
(* tsrc/git.py, class Status                                               *)
(***************************************************************************)
\* Python's None in a Status field
None == "None"
NoneCount == 0 - 1

\* the commits reachable from c
Reachable(c) == {a \in Commits : IsAncestorEq(a, c)}

\* the first characters of the lines `git status --porcelain` prints
PorcelainLines(r) ==
    (IF r.untracked THEN << <<"?", "?", " ">> >> ELSE <<>>)
    \o (IF r.changes # "clean" THEN << <<" ", "M", " ">> >> ELSE <<>>)
    \o (IF r.added THEN << <<"A", " ", " ">> >> ELSE <<>>)

\* str.startswith
startswith(line, prefix) ==
    Len(line) >= Len(prefix) /\ SubSeq(line, 1, Len(prefix)) = prefix

\* git rev-parse --short HEAD
git_rev_parse_short_HEAD(r) ==
    IF HeadCommit(r) = NoCommit THEN [rc |-> 128, out |-> NoCommit, repo |-> r]
    ELSE [rc |-> 0, out |-> HeadCommit(r), repo |-> r]

\* git tag --points-at HEAD
git_tag_points_at_HEAD(r) ==
    IF HeadCommit(r) = NoCommit THEN [rc |-> 129, out |-> "", repo |-> r]
    ELSE [rc |-> 0, out |-> r.tag, repo |-> r]

\* git rev-list <from>..<to> with @{upstream} on one side: the number of
\* lines printed
git_rev_list(r, ahead) ==
    LET up == git_rev_parse_upstream(r)
        u == RefCommit(r, up.out)
        h == HeadCommit(r)
    IN  IF up.rc # 0 \/ h = NoCommit THEN [rc |-> 128, out |-> 0, repo |-> r]
        ELSE [rc |-> 0, repo |-> r,
              out |-> IF ahead THEN Cardinality(Reachable(h) \ Reachable(u))
                      ELSE Cardinality(Reachable(u) \ Reachable(h))]

\* git status --porcelain
git_status_porcelain(r) == [rc |-> 0, out |-> PorcelainLines(r), repo |-> r]

\* git stash list: the number of lines printed
git_stash_list(r) == [rc |-> 0, out |-> r.stash, repo |-> r]

\* Status.__init__
Status_init ==
    [untracked |-> 0, staged |-> 0, not_staged |-> 0, added |-> 0,
     ahead |-> 0, behind |-> 0, dirty |-> FALSE, tag |-> None,
     branch |-> None, sha1 |-> NoCommit, stashed_entries |-> NoneCount]

\* update_sha1, after get_sha1's run_captured
sha1_of(c) == IF Raised(c) THEN c ELSE [c EXCEPT !.status.sha1 = c.out]

\* get_sha1(working_path, short=True)
update_sha1(c) ==
    sha1_of(run_captured(c, "rev-parse --short HEAD", FALSE, NoCommit,
                         git_rev_parse_short_HEAD(c.repo), TRUE))

\* update_branch, after get_current_branch: `except Error: pass`
branch_or_pass(c) ==
    IF c.exc \in GitErrors THEN [c EXCEPT !.exc = NoExc]
    ELSE IF Raised(c) THEN c
    ELSE [c EXCEPT !.status.branch = c.current_branch]

update_branch(c) ==
    IF Raised(c) THEN c ELSE branch_or_pass(get_current_branch(c))

\* update_tag, after get_current_tag: `except Error: pass`
tag_or_pass(c) ==
    IF c.exc \in GitErrors THEN [c EXCEPT !.exc = NoExc]
    ELSE IF Raised(c) THEN c
    ELSE [c EXCEPT !.status.tag = c.out]

update_tag(c) ==
    IF Raised(c) THEN c
    ELSE tag_or_pass(
             run_captured(c, "tag --points-at HEAD", FALSE, NoCommit,
                          git_tag_points_at_HEAD(c.repo), TRUE))

\* update_remote_status, `if rc == 0: self.ahead = len(...)`
ahead_of(c) ==
    IF Raised(c) \/ c.rc # 0 THEN c ELSE [c EXCEPT !.status.ahead = c.out]

\* update_remote_status, `if rc == 0: self.behind = len(...)`
behind_of(c) ==
    IF Raised(c) \/ c.rc # 0 THEN c ELSE [c EXCEPT !.status.behind = c.out]

\* update_remote_status, second half
rev_list_behind(c) ==
    IF Raised(c) THEN c
    ELSE behind_of(
             run_captured(c, "rev-list HEAD..@{upstream}", FALSE, NoCommit,
                          git_rev_list(c.repo, FALSE), FALSE))

update_remote_status(c) ==
    IF Raised(c) THEN c
    ELSE rev_list_behind(ahead_of(
             run_captured(c, "rev-list @{upstream}..HEAD", FALSE, NoCommit,
                          git_rev_list(c.repo, TRUE), FALSE)))

\* update_worktree_status, the body of the loop over the lines
classify_line(st, line) ==
    [st EXCEPT
        !.untracked = IF startswith(line, <<"?", "?">>) THEN @ + 1 ELSE @,
        !.staged = IF startswith(line, <<" ", "M">>) THEN @ + 1 ELSE @,
        !.not_staged = IF startswith(line, <<" ", ".", "M">>) THEN @ + 1 ELSE @,
        !.added = IF startswith(line, <<"A", " ">>) THEN @ + 1 ELSE @,
        !.dirty = \/ @
                  \/ startswith(line, <<"?", "?">>)
                  \/ startswith(line, <<" ", "M">>)
                  \/ startswith(line, <<" ", ".", "M">>)
                  \/ startswith(line, <<"A", " ">>)]

RECURSIVE classify(_, _, _)
\* the loop of update_worktree_status over the lines, from the i-th on
classify(st, lines, i) ==
    IF i > Len(lines) THEN st
    ELSE classify(classify_line(st, lines[i]), lines, i + 1)

\* update_worktree_status, after `git status --porcelain`
classified(c) ==
    IF Raised(c) THEN c ELSE [c EXCEPT !.status = classify(@, c.out, 1)]

\* update_worktree_status, after `git stash list`
stashed_of(c) ==
    IF Raised(c) THEN c ELSE [c EXCEPT !.status.stashed_entries = c.out]

\* update_worktree_status, second half
stash_list(c) ==
    IF Raised(c) THEN c
    ELSE stashed_of(run_captured(c, "stash list", FALSE, NoCommit,
                                 git_stash_list(c.repo), TRUE))

update_worktree_status(c) ==
    IF Raised(c) THEN c
    ELSE stash_list(classified(
             run_captured(c, "status --porcelain", FALSE, NoCommit,
                          git_status_porcelain(c.repo), TRUE)))

Status_update(c) ==
    update_worktree_status(update_remote_status(update_tag(update_branch(
        update_sha1(c)))))

\* get_status, what it returns or raises
get_status_returns(c) ==
    [repo |-> c.repo, log |-> c.log, exc |-> c.exc,
     ret |-> IF Raised(c) THEN Status_init ELSE c.status]

get_status(r) ==
    get_status_returns(Status_update([Context(r) EXCEPT !.status = Status_init]))

(***************************************************************************)
(* tsrc/cli/reset.py and tsrc/cli/status.py: the collectors                *)
(***************************************************************************)
\* collections.OrderedDict, as the list of its (key, value) items in
\* iteration order: d[key] = value replaces the value of a key already
\* present, in place, and appends a new key at the end
OrderedDict_setitem(d, key, value) ==
    IF \E i \in 1..Len(d) : d[i].key = key
    THEN [i \in 1..Len(d) |->
             IF d[i].key = key THEN [key |-> key, value |-> value] ELSE d[i]]
    ELSE Append(d, [key |-> key, value |-> value])

\* a working-copy path that does not exist on disk
Missing ==
    [exists |-> FALSE, cur |-> "master", detached |-> NoCommit,
     local |-> [b \in Branches |-> NoCommit],
     upstream |-> [b \in Branches |-> NoRef],
     refs |-> [ref \in RemoteBranches |-> NoCommit], origin_head |-> FALSE,
     changes |-> "clean", untracked |-> FALSE, added |-> FALSE, tag |-> "",
     stash |-> 0]

\* tsrc.errors.MissingRepo(repo.src)
MissingRepo == [exc |-> "MissingRepo", ret |-> <<>>]

\* what a call of process stored, for the claims: the new outcome map, the
\* working copy after, the value stored for this repository, whether the
\* operation was invoked and the git commands it ran
Skipped(d, ws, r) ==
    [map |-> OrderedDict_setitem(d, r.src, MissingRepo), ws |-> ws,
     stored |-> MissingRepo, invoked |-> FALSE, log |-> <<>>]

\* `self.reseted_repos[repo.src] = <result>` / `... = e`
Stored(d, ws, r, res) ==
    [map |-> OrderedDict_setitem(d, r.src, [exc |-> res.exc, ret |-> res.ret]),
     ws |-> [ws EXCEPT ![r.src] = res.repo],
     stored |-> [exc |-> res.exc, ret |-> res.ret],
     invoked |-> TRUE, log |-> res.log]

\* mutant: an exception of the operation is swallowed and nothing is stored
StoredUnlessRaised(d, ws, r, res) ==
    [map |-> IF res.exc # NoExc THEN d
             ELSE OrderedDict_setitem(d, r.src,
                                      [exc |-> res.exc, ret |-> res.ret]),
     ws |-> [ws EXCEPT ![r.src] = res.repo],
     stored |-> [exc |-> res.exc, ret |-> res.ret],
     invoked |-> TRUE, log |-> res.log]

\* mutant: an exception of reset_repo is swallowed and nothing is stored
ResetCollector_process_drops_errors(d, ws, r, net) ==
    IF ~ws[r.src].exists THEN Skipped(d, ws, r)
    ELSE StoredUnlessRaised(d, ws, r,
                            reset_repo(ws[r.src], net, r.branch, r.sha1))

\* ResetCollector.process
ResetCollector_process(d, ws, r, net) ==
    IF ~ws[r.src].exists THEN Skipped(d, ws, r)
    ELSE Stored(d, ws, r, reset_repo(ws[r.src], net, r.branch, r.sha1))

\* mutant: the test that the working copy exists is missing
StatusCollector_process_unguarded(d, ws, r) ==
    Stored(d, ws, r, get_status(ws[r.src]))

\* StatusCollector.process
StatusCollector_process(d, ws, r) ==
    IF ~ws[r.src].exists THEN Skipped(d, ws, r)
    ELSE Stored(d, ws, r, get_status(ws[r.src]))

(***************************************************************************)
(* Manifest documents and the Manifest class (tsrc/manifest.py)            *)
(***************************************************************************)
\* a key of a YAML mapping: present with a value, or absent (v only gives
\* the absent key a value of the right kind, it is never read as data)
Present(v) == [present |-> TRUE, value |-> v]
Absent(v) == [present |-> FALSE, value |-> v]

\* Python truth of data.get(key): neither None (absent) nor empty
truthy_str(opt) == opt.present /\ opt.value # ""
truthy_list(opt) == opt.present /\ opt.value # <<>>

Remote(name, url) == [name |-> name, url |-> url]

Repo(src, branch, sha1, tag, remotes) ==
    [src |-> src, branch |-> branch, sha1 |-> sha1, tag |-> tag,
     remotes |-> remotes]

SchemaMissingKey == "SchemaError: Missing key: 'src'"
SchemaBoth ==
    "SchemaError: Repo config cannot contain both an url and a list of remotes"
SchemaNeither ==
    "SchemaError: Repo config should contain either a url or a non-empty list of remotes"
SchemaErrors == {SchemaMissingKey, SchemaBoth, SchemaNeither}

\* validate_repo testing that the url key is there, whatever its value
validate_repo_by_presence(data) ==
    IF ~data.src.present THEN SchemaMissingKey
    ELSE IF data.url.present /\ truthy_list(data.remotes) THEN SchemaBoth
    ELSE IF ~data.url.present /\ ~truthy_list(data.remotes)
         THEN SchemaNeither
    ELSE NoExc

\* validate_repo(data): the error it raises, NoExc when it returns
validate_repo(data) ==
    IF ~data.src.present THEN SchemaMissingKey
    ELSE IF truthy_str(data.url) /\ truthy_list(data.remotes) THEN SchemaBoth
    ELSE IF ~truthy_str(data.url) /\ ~truthy_list(data.remotes)
         THEN SchemaNeither
    ELSE NoExc

\* the list schema [schema.Use(validate_repo)]: the first error raised
RECURSIVE validate_repos(_, _)
validate_repos(rcs, i) ==
    IF i > Len(rcs) THEN NoExc
    ELSE IF validate_repo(rcs[i]) # NoExc THEN validate_repo(rcs[i])
    ELSE validate_repos(rcs, i + 1)

\* Manifest.__init__
Manifest_init ==
    [repos |-> <<>>, copyfiles |-> <<>>,
     group_list |-> [elements |-> {}, groups |-> <<>>]]

Manifest_handle_remotes(repo_config) ==
    IF truthy_list(repo_config.remotes)
    THEN [i \in 1..Len(repo_config.remotes.value) |->
            Remote(repo_config.remotes.value[i].name,
                   repo_config.remotes.value[i].url)]
    ELSE <<>>

\* the remotes of the Repo: a single origin from url, else the remotes list
remotes_of(repo_config) ==
    IF truthy_str(repo_config.url)
    THEN <<Remote("origin", repo_config.url.value)>>
    ELSE Manifest_handle_remotes(repo_config)

Manifest_handle_repo(m, repo_config) ==
    [m EXCEPT !.repos =
        Append(@, Repo(repo_config.src.value,
                       IF repo_config.branch.present
                       THEN repo_config.branch.value ELSE "master",
                       IF repo_config.sha1.present
                       THEN repo_config.sha1.value ELSE NoneSha,
                       IF repo_config.tag.present
                       THEN repo_config.tag.value ELSE None,
                       remotes_of(repo_config)))]

\* one copy directive: (os.path.join(repo src, src), dest or src)
copy_of(repo_config, item) ==
    [src |-> <<repo_config.src.value, item.src>>,
     dest |-> IF item.dest.present THEN item.dest.value ELSE item.src]

Manifest_handle_copies(m, repo_config) ==
    IF ~repo_config.copy.present THEN m
    ELSE [m EXCEPT !.copyfiles =
            @ \o [i \in 1..Len(repo_config.copy.value) |->
                    copy_of(repo_config, repo_config.copy.value[i])]]

RECURSIVE handle_repos(_, _, _)
handle_repos(m, rcs, i) ==
    IF i > Len(rcs) THEN m
    ELSE handle_repos(
             Manifest_handle_copies(Manifest_handle_repo(m, rcs[i]), rcs[i]),
             rcs, i + 1)

(***************************************************************************)
(* The group resolver (tsrc.GroupList), after section 4.1                  *)
(***************************************************************************)
Range(s) == {s[i] : i \in DOMAIN s}

GroupList_init(elements) == [elements |-> elements, groups |-> <<>>]

Group(name, elements, includes) ==
    [name |-> name, elements |-> elements, includes |-> includes]

\* groups[name] = group
with_group(groups, name, group) ==
    [n \in DOMAIN groups \cup {name} |->
        IF n = name THEN group ELSE groups[n]]

\* add(name, elements, includes): UnknownElement for an element outside
\* the universe, else the group is registered
GroupList_add(gl, name, elements, includes) ==
    IF ~(Range(elements) \subseteq gl.elements)
    THEN [exc |-> "UnknownElement", gl |-> gl]
    ELSE [exc |-> NoExc,
          gl |-> [gl EXCEPT !.groups =
                     with_group(@, name,
                                Group(name, Range(elements), includes))]]

\* get_group(name): the group, absent for None
GroupList_get_group(gl, name) ==
    IF name \in DOMAIN gl.groups THEN Present(gl.groups[name])
    ELSE Absent(Group(name, {}, <<>>))

\* the union of a group's own elements, its includes' and the next groups'
union_elements(own, included, rest) ==
    IF included.exc # NoExc THEN included
    ELSE IF rest.exc # NoExc THEN rest
    ELSE [exc |-> NoExc, ret |-> own \cup included.ret \cup rest.ret]

\* the elements of names[i..], path being the groups on the recursion path
RECURSIVE resolve_groups(_, _, _, _)
resolve_groups(gl, names, i, path) ==
    IF i > Len(names) THEN [exc |-> NoExc, ret |-> {}]
    ELSE IF names[i] \notin DOMAIN gl.groups
         THEN [exc |-> "GroupNotFound", ret |-> {}]
    ELSE IF names[i] \in path
         THEN [exc |-> "CyclicGroupReference", ret |-> {}]
    ELSE union_elements(
             gl.groups[names[i]].elements,
             resolve_groups(gl, gl.groups[names[i]].includes, 1,
                            path \cup {names[i]}),
             resolve_groups(gl, names, i + 1, path))

GroupList_get_elements(gl, groups) == resolve_groups(gl, groups, 1, {})

(***************************************************************************)
(* Manifest: groups and the selection of repositories                      *)
(***************************************************************************)
\* the loop of _handle_groups from the i-th declared group on
RECURSIVE add_groups(_, _, _)
add_groups(added, groups_config, i) ==
    IF added.exc # NoExc \/ i > Len(groups_config) THEN added
    ELSE add_groups(
             GroupList_add(added.gl, groups_config[i].name,
                           groups_config[i].repos,
                           IF groups_config[i].includes.present
                           THEN groups_config[i].includes.value ELSE <<>>),
             groups_config, i + 1)

\* the manifest with its group list, or the error of the registration
with_group_list(m, added) ==
    [exc |-> added.exc, manifest |-> [m EXCEPT !.group_list = added.gl]]

Manifest_handle_groups(m, config) ==
    with_group_list(
        m,
        add_groups([exc |-> NoExc,
                    gl |-> GroupList_init({m.repos[i].src :
                                             i \in DOMAIN m.repos})],
                   config.groups, 1))

\* Manifest.load(config) on the manifest m
Manifest_load(m, config) ==
    Manifest_handle_groups(
        handle_repos([m EXCEPT !.copyfiles = <<>>], config.repos, 1),
        config)

Manifest_has_default_group(m) ==
    GroupList_get_group(m.group_list, "default").present

\* get_repo(src): the first repository declared under src
Manifest_get_repo(m, src) ==
    IF \E i \in DOMAIN m.repos : m.repos[i].src = src
    THEN [exc |-> NoExc,
          ret |-> m.repos[CHOOSE i \in DOMAIN m.repos :
                            /\ m.repos[i].src = src
                            /\ \A j \in 1..(i - 1) : m.repos[j].src # src]]
    ELSE [exc |-> "RepoNotFound", ret |-> Repo(src, "", NoneSha, None, <<>>)]

\* the srcs in lexicographic order
SrcsSorted == <<"a", "b">>

\* sorted(res, key=operator.attrgetter("src")): stable, smallest src first
RECURSIVE sorted_from(_, _)
sorted_from(res, k) ==
    IF k > Len(SrcsSorted) THEN <<>>
    ELSE SelectSeq(res, LAMBDA r : r.src = SrcsSorted[k])
             \o sorted_from(res, k + 1)

sorted(res) == sorted_from(res, 1)

\* [repo] + rest, unless get_repo or the rest of the loop raised
prepend_repo(got, rest) ==
    IF got.exc # NoExc THEN [exc |-> got.exc, ret |-> <<>>]
    ELSE IF rest.exc # NoExc THEN rest
    ELSE [exc |-> NoExc, ret |-> <<got.ret>> \o rest.ret]

RECURSIVE repos_of(_, _, _)
repos_of(m, srcs, i) ==
    IF i > Len(srcs) THEN [exc |-> NoExc, ret |-> <<>>]
    ELSE prepend_repo(Manifest_get_repo(m, srcs[i]), repos_of(m, srcs, i + 1))

sorted_repos(got) ==
    IF got.exc # NoExc THEN got ELSE [got EXCEPT !.ret = sorted(@)]

\* the loop over elements run on whatever the resolver gave, its error
\* taken for an empty set
listed_repos_of_any(m, elements, order) ==
    IF elements.exc # NoExc THEN [exc |-> NoExc, ret |-> <<>>]
    ELSE repos_of(m, SelectSeq(order, LAMBDA s : s \in elements.ret), 1)

\* res after `for src in elements: res.append(self.get_repo(src))`, the set
\* iterated in the order that order gives
listed_repos(m, elements, order) ==
    IF elements.exc # NoExc THEN [exc |-> elements.exc, ret |-> <<>>]
    ELSE repos_of(m, SelectSeq(order, LAMBDA s : s \in elements.ret), 1)

\* _get_repos_in_groups returning res as the loop left it
Manifest_get_repos_in_groups_unsorted(m, groups, order) ==
    listed_repos(m, GroupList_get_elements(m.group_list, groups), order)

\* _get_repos_in_groups(groups); order is the iteration order of the set
Manifest_get_repos_in_groups(m, groups, order) ==
    sorted_repos(
        listed_repos(m, GroupList_get_elements(m.group_list, groups), order))

\* get_repos(groups, all_)
Manifest_get_repos(m, groups, all_, order) ==
    IF all_ THEN [exc |-> NoExc, ret |-> m.repos]
    ELSE IF ~truthy_list(groups)
         THEN IF Manifest_has_default_group(m)
              THEN Manifest_get_repos_in_groups(m, <<"default">>, order)
              ELSE [exc |-> NoExc, ret |-> m.repos]
    ELSE Manifest_get_repos_in_groups(m, groups.value, order)

\* what load(manifest_path) gives for the document config: the manifest, or
\* the error raised, and how many Repo objects were constructed on the way
loaded_manifest(res, config) ==
    [exc |-> res.exc, manifest |-> res.manifest,
     constructed |-> Len(res.manifest.repos)]

load(config) ==
    IF validate_repos(config.repos, 1) # NoExc
    THEN [exc |-> validate_repos(config.repos, 1), manifest |-> Manifest_init,
          constructed |-> 0]
    ELSE loaded_manifest(Manifest_load(Manifest_init, config), config)

(***************************************************************************)
(* The snapshot generator (tsrc.manifest.create_snapshot)                  *)
(***************************************************************************)
\* git remote: the names of the remotes configured in the repository
git_remote(d) ==
    [rc |-> 0, out |-> [i \in 1..Len(d.remotes) |-> d.remotes[i].name]]

\* git remote get-url <remote>
git_remote_get_url(d, remote) ==
    IF \E i \in 1..Len(d.remotes) : d.remotes[i].name = remote
    THEN [rc |-> 0,
          out |-> d.remotes[CHOOSE i \in 1..Len(d.remotes) :
                              d.remotes[i].name = remote].url]
    ELSE [rc |-> 2, out |-> ""]

\* the state of the walk: the error raised, the repo dicts kept so far, the
\* warnings printed and the git commands run
Walk == [exc |-> NoExc, repos |-> <<>>, warnings |-> <<>>, log |-> <<>>]

ran(s, name, cmd) == [s EXCEPT !.log = Append(@, [src |-> name, cmd |-> cmd])]

discarded(s, name, message) ==
    [s EXCEPT !.warnings = Append(@, [src |-> name, message |-> message])]

\* remotes_dict as a list of (name, url) items in insertion order
remotes_dict(d) ==
    [i \in 1..Len(git_remote(d).out) |->
        Remote(git_remote(d).out[i],
               git_remote_get_url(d, git_remote(d).out[i]).out)]

\* the commands of the remotes loop: git remote, then one get-url each
RECURSIVE ran_get_urls(_, _, _, _)
ran_get_urls(s, name, d, i) ==
    IF i > Len(d.remotes) THEN s
    ELSE ran_get_urls(ran(s, name, "remote get-url"), name, d, i + 1)

\* the repo dict with its url or remotes, appended unless it has no remote
with_remotes(s, name, branch, sha1, items) ==
    IF items = <<>> THEN discarded(s, name, "has no remotes. Discarded.")
    ELSE [s EXCEPT !.repos =
            Append(@, [src |-> Present(name), branch |-> Present(branch),
                       sha1 |-> sha1, tag |-> Absent(""),
                       url |-> IF Len(items) = 1 THEN Present(items[1].url)
                               ELSE Absent(""),
                       remotes |-> IF Len(items) = 1 THEN Absent(<<>>)
                                   ELSE Present(items),
                       copy |-> Absent(<<>>)])]

get_remotes(s, name, d, branch, sha1) ==
    with_remotes(ran_get_urls(ran(s, name, "remote"), name, d, 1),
                 name, branch, sha1, remotes_dict(d))

\* the current commit, recorded when sha1 is set; CommandError is caught
\* and the repository discarded
get_current_commit(s, name, d, branch, sha1) ==
    IF ~sha1 THEN get_remotes(s, name, d, branch, Absent(NoneSha))
    ELSE IF git_rev_parse_short_HEAD(d.repo).rc # 0
         THEN discarded(ran(s, name, "rev-parse --short --verify HEAD"), name,
                        "has no commits. Discarded.")
    ELSE get_remotes(ran(s, name, "rev-parse --short --verify HEAD"), name, d,
                     branch, Present(git_rev_parse_short_HEAD(d.repo).out))

\* the current branch, read with run_captured: CommandError when git fails
get_currentbranch(s, name, d, sha1) ==
    IF git_rev_parse_abbrev_ref_HEAD(d.repo).rc # 0
    THEN [ran(s, name, "rev-parse --abbrev-ref HEAD")
             EXCEPT !.exc = "CommandError"]
    ELSE get_current_commit(ran(s, name, "rev-parse --abbrev-ref HEAD"), name,
                            d, git_rev_parse_abbrev_ref_HEAD(d.repo).out,
                            sha1)

\* the loop over from_dir.walk('.git'), the directories met in this order
RECURSIVE walk(_, _, _, _, _)
walk(s, t, order, i, sha1) ==
    IF s.exc # NoExc \/ i > Len(order) THEN s
    ELSE IF ~t[order[i]].repo.exists THEN walk(s, t, order, i + 1, sha1)
    ELSE walk(get_currentbranch(s, order[i], t[order[i]], sha1),
              t, order, i + 1, sha1)

\* tsrc.config.dump_config({'repos': repos}, manifest_path)
dump_config(s, file) ==
    [exc |-> s.exc, warnings |-> s.warnings, log |-> s.log,
     file |-> IF s.exc # NoExc THEN file
              ELSE [exists |-> TRUE,
                    content |-> [repos |-> s.repos, groups |-> <<>>]]]

\* create_snapshot(manifest_path, sha1) run in the workspace t
create_snapshot(t, file, sha1, order) ==
    dump_config(walk(Walk, t, order, 1, sha1), file)

AlreadyFound == "Error: Manifest already found in manifest.yml. Use -f to force creation."

\* LocalManifest.create_snapshot(yml_path, force, sha1)
LocalManifest_create_snapshot(t, file, force, sha1, order) ==
    IF file.exists /\ ~force
    THEN [exc |-> AlreadyFound, warnings |-> <<>>, log |-> <<>>,
          file |-> file]
    ELSE create_snapshot(t, file, sha1, order)

\* git checkout -b <branch>
git_checkout_b(r, branch) ==
    IF r.local[branch] # NoCommit \/ HeadCommit(r) = NoCommit
    THEN [rc |-> 128, out |-> "fatal", repo |-> r]
    ELSE [rc |-> 0, out |-> "",
          repo |-> [r EXCEPT !.cur = branch, !.detached = NoCommit,
                             !.local[branch] = HeadCommit(r)]]

(***************************************************************************)
(* The variables a specification does not use keep these values            *)
(***************************************************************************)
NotCalled ==
    [exc |-> NoExc, ret |-> <<>>, log |-> <<>>, tracking_ref |-> NoRef,
     at_target |-> FALSE, after_success |-> FALSE, branch_before |-> "",
     called |-> FALSE]

ResetIdle ==
    /\ repo = Missing
    /\ target = [branch |-> "master", sha1 |-> NoneSha]
    /\ outcome = NotCalled
    /\ calls = 0

BatchIdle ==
    /\ workspace = <<>>
    /\ repos = <<>>
    /\ index = 0
    /\ collector = ""
    /\ reseted_repos = <<>>
    /\ statuses = <<>>
    /\ processed = <<>>

NotLoaded == [called |-> FALSE, exc |-> NoExc, constructed |-> 0]

NotSelected ==
    [called |-> FALSE, groups |-> Absent(<<>>), all_ |-> FALSE,
     exc |-> NoExc, ret |-> <<>>]

ManifestIdle ==
    /\ document = [repos |-> <<>>, groups |-> <<>>]
    /\ manifest = Manifest_init
    /\ loaded = NotLoaded
    /\ selection = NotSelected
    /\ loads = 0

NoFile == [exists |-> FALSE, content |-> [repos |-> <<>>, groups |-> <<>>]]

NoSnapshot ==
    [called |-> FALSE, force |-> FALSE, sha1 |-> FALSE, exc |-> NoExc,
     warnings |-> <<>>, log |-> <<>>, before |-> NoFile, count |-> 0]

SnapshotIdle ==
    /\ tree = <<>>
    /\ seen = <<>>
    /\ yml = NoFile
    /\ snap = NoSnapshot

\* main of tsrc reset before its first statement
NotRun ==
    [pc |-> "load_manifest", exc |-> NoExc, raised_at |-> "", cloned |-> {},
     before |-> <<>>]

CommandIdle == command = NotRun

(***************************************************************************)
(* reset_repo called on one working copy                                   *)
(***************************************************************************)
Sha1Args == Commits \cup {UnknownSha, NoneSha}

\* the working copy is on the target branch with HEAD at the target sha1
AtTarget(r, t) == r.cur = t.branch /\ HeadCommit(r) = t.sha1 /\ t.sha1 \in Commits

InitReset ==
    /\ repo \in WorkingCopies
    /\ target \in [branch : Branches, sha1 : Sha1Args]
    /\ outcome = NotCalled
    /\ calls = 0
    /\ BatchIdle /\ ManifestIdle /\ SnapshotIdle /\ CommandIdle

\* the working copy and the outcome after a call of reset_repo
Returned(res) ==
    /\ repo' = res.repo
    /\ outcome' = [exc |-> res.exc, ret |-> res.ret, log |-> res.log,
                   tracking_ref |-> res.tracking_ref,
                   at_target |-> AtTarget(repo, target),
                   after_success |-> outcome.called /\ outcome.exc = NoExc,
                   branch_before |-> repo.cur,
                   called |-> TRUE]

ResetRepo ==
    /\ calls < MaxCalls
    /\ \E net \in BOOLEAN :
          Returned(reset_repo(repo, net, target.branch, target.sha1))
    /\ calls' = calls + 1
    /\ UNCHANGED <<target, batchVars, manifestVars, snapshotVars, command>>

NextReset == ResetRepo

SpecReset == InitReset /\ [][NextReset]_vars

(***************************************************************************)
(* A collector handed a list of repositories, one process call each        *)
(***************************************************************************)
Srcs == {"a", "b"}

\* the tsrc.Repo objects of a manifest, as far as the collectors read them
BatchRepos == [src : Srcs, branch : {"master"}, sha1 : {NoneSha, 2}]

SeqsUpTo(S, n) == UNION {[1..k -> S] : k \in 0..n}

\* the working copies of the batch runs: missing on disk, without a commit,
\* on a detached HEAD, or on master with or without an upstream and with or
\* without the remote branch
BatchWorkingCopies ==
    {Missing} \cup
    { w \in WorkingCopies :
        /\ w.changes = "clean" /\ ~w.untracked /\ ~w.origin_head
        /\ w.local["dev"] = NoCommit /\ w.local["master"] \in {NoCommit, 1}
        /\ w.refs[OriginDev] = NoCommit /\ w.refs[ForkMaster] = NoCommit
        /\ w.refs[OriginMaster] \in {NoCommit, 2} }

InitBatch ==
    /\ workspace \in [Srcs -> BatchWorkingCopies]
    /\ repos \in SeqsUpTo(BatchRepos, MaxRepos)
    /\ index = 0
    /\ collector \in {"reset", "status"}
    /\ reseted_repos = <<>>
    /\ statuses = <<>>
    /\ processed = <<>>
    /\ ResetIdle /\ ManifestIdle /\ SnapshotIdle /\ CommandIdle

\* what a call of process did: kept for the claims
Processed(r, p) ==
    [src |-> r.src, existed |-> workspace[r.src].exists, stored |-> p.stored,
     invoked |-> p.invoked, log |-> p.log]

\* the collector and the workspace after ResetCollector.process
ResetProcessed(r, p) ==
    /\ reseted_repos' = p.map
    /\ workspace' = p.ws
    /\ processed' = Append(processed, Processed(r, p))

\* the collector and the workspace after StatusCollector.process
StatusProcessed(r, p) ==
    /\ statuses' = p.map
    /\ workspace' = p.ws
    /\ processed' = Append(processed, Processed(r, p))

\* run_sequence calls ResetCollector.process on the next repository
ResetProcess ==
    /\ collector = "reset"
    /\ index < Len(repos)
    /\ \E net \in BOOLEAN :
          ResetProcessed(repos[index + 1],
                         ResetCollector_process(reseted_repos, workspace,
                                                repos[index + 1], net))
    /\ index' = index + 1
    /\ UNCHANGED <<repos, collector, statuses, resetVars, manifestVars,
                   snapshotVars, command>>

\* run_sequence calls StatusCollector.process on the next repository
StatusProcess ==
    /\ collector = "status"
    /\ index < Len(repos)
    /\ StatusProcessed(repos[index + 1],
                       StatusCollector_process(statuses, workspace,
                                               repos[index + 1]))
    /\ index' = index + 1
    /\ UNCHANGED <<repos, collector, reseted_repos, resetVars, manifestVars,
                   snapshotVars, command>>

NextBatch == ResetProcess \/ StatusProcess

SpecBatch == InitBatch /\ [][NextBatch]_vars

(***************************************************************************)
(* A manifest document loaded, then queried with get_repos                 *)
(***************************************************************************)
RepoConfig(src, url, remotes, copy) ==
    [src |-> src, branch |-> Absent(""), sha1 |-> Absent(NoneSha),
     tag |-> Absent(""), url |-> url, remotes |-> remotes, copy |-> copy]

\* repo configs of any shape: src, url and remotes absent, empty or given
AnyRepoConfigs ==
    { RepoConfig(src, url, remotes, Absent(<<>>)) :
        src \in {Present("a"), Present("b"), Absent("")},
        url \in {Absent(""), Present(""), Present("git@srv:repo")},
        remotes \in {Absent(<<>>), Present(<<>>),
                     Present(<<Remote("upstream", "git@up:repo")>>)} }

\* one valid repo config per src, the one of "a" with a copy directive
ValidRepoConfigs ==
    { RepoConfig(Present("a"), Present("git@srv:a"), Absent(<<>>),
                 Present(<<[src |-> "f", dest |-> Absent("")]>>)),
      RepoConfig(Present("b"), Absent(""),
                 Present(<<Remote("origin", "git@srv:b")>>), Absent(<<>>)) }

\* the repos of a declared group: srcs of the manifest, or one that is not
GroupElements == {<<>>, <<"a">>, <<"b">>, <<"a", "b">>, <<"zz">>}

\* the includes of a declared group: none, declared groups, or an unknown one
GroupIncludes ==
    {Absent(<<>>), Present(<<"default">>), Present(<<"extra">>),
     Present(<<"default", "extra">>), Present(<<"ghost">>)}

GroupConfigs(name) ==
    [name : {name}, repos : GroupElements, includes : GroupIncludes]

GroupsConfigs ==
    {<<>>} \cup {<<d>> : d \in GroupConfigs("default")}
           \cup {<<e>> : e \in GroupConfigs("extra")}
           \cup {<<d, e>> : d \in GroupConfigs("default"),
                            e \in GroupConfigs("extra")}

ManifestConfigs ==
    [repos : SeqsUpTo(AnyRepoConfigs, MaxConfigRepos), groups : {<<>>}]
    \cup [repos : SeqsUpTo(ValidRepoConfigs, MaxConfigRepos),
          groups : GroupsConfigs]

\* the groups argument of get_repos: None or a list of names
GroupArgs ==
    {Absent(<<>>), Present(<<>>), Present(<<"default">>), Present(<<"extra">>),
     Present(<<"default", "extra">>), Present(<<"ghost">>)}

\* the orders in which a set of srcs may be iterated
IterationOrders == {<<"a", "b", "zz">>, <<"b", "a", "zz">>, <<"zz", "b", "a">>}

InitManifest ==
    /\ document \in ManifestConfigs
    /\ manifest = Manifest_init
    /\ loaded = NotLoaded
    /\ selection = NotSelected
    /\ loads = 0
    /\ ResetIdle /\ BatchIdle /\ SnapshotIdle /\ CommandIdle

\* the manifest module's state after load(manifest_path)
Loaded(res) ==
    /\ manifest' = IF res.exc = NoExc THEN res.manifest ELSE Manifest_init
    /\ loaded' = [called |-> TRUE, exc |-> res.exc,
                  constructed |-> res.constructed]
    /\ loads' = IF res.exc \in SchemaErrors THEN 0 ELSE 1

\* load(manifest_path) on the document
Load ==
    /\ ~loaded.called
    /\ Loaded(load(document))
    /\ UNCHANGED <<document, selection, resetVars, batchVars, snapshotVars,
                   command>>

Selected(groups, all_, res) ==
    selection' = [called |-> TRUE, groups |-> groups, all_ |-> all_,
                  exc |-> res.exc, ret |-> res.ret]

\* manifest.get_repos(groups, all_) on the loaded manifest
GetRepos ==
    /\ loaded.called /\ loaded.exc = NoExc
    /\ \E groups \in GroupArgs, all_ \in BOOLEAN, order \in IterationOrders :
          Selected(groups, all_,
                   Manifest_get_repos(manifest, groups, all_, order))
    /\ UNCHANGED <<document, manifest, loaded, loads, resetVars, batchVars,
                   snapshotVars, command>>

NextManifest == Load \/ GetRepos

SpecManifest == InitManifest /\ [][NextManifest]_vars

(***************************************************************************)
(* Snapshots of a workspace, between local branch switches                 *)
(***************************************************************************)
\* a directory of the workspace: the working copy and its configured remotes
Dir(w, remotes) == [repo |-> w, remotes |-> remotes]

OnBranch(cur, master, dev) ==
    WorkingCopy([cur |-> cur, detached |-> NoCommit,
                 local |-> [b \in Branches |->
                              IF b = "master" THEN master ELSE dev],
                 upstream |-> [b \in Branches |-> NoRef]],
                [refs |-> [ref \in RemoteBranches |-> NoCommit],
                 origin_head |-> FALSE],
                "clean", FALSE, FALSE, "", 0)

Origin == Remote("origin", "git@srv:repo")

\* no repository, one without a commit, on master with no, one or two
\* remotes, on dev, or on a detached HEAD
SnapshotDirs ==
    { Dir(Missing, <<>>),
      Dir(OnBranch("master", NoCommit, NoCommit), <<Origin>>),
      Dir(OnBranch("master", 1, NoCommit), <<>>),
      Dir(OnBranch("master", 1, NoCommit), <<Origin>>),
      Dir(OnBranch("master", 1, NoCommit), <<Origin, Remote("upstream", "git@up:repo")>>),
      Dir(OnBranch("dev", 1, 2), <<Origin>>),
      Dir([OnBranch(DetachedHead, 1, NoCommit) EXCEPT !.detached = 1],
          <<Origin>>) }

\* a manifest written before: it differs from any snapshot of the workspace
OldManifest ==
    [repos |-> <<RepoConfig(Present("a"), Present("git@old:repo"),
                            Absent(<<>>), Absent(<<>>))>>,
     groups |-> <<>>]

WalkOrders == {<<"a", "b">>, <<"b", "a">>}

InitSnapshot ==
    /\ tree \in [Srcs -> SnapshotDirs]
    /\ seen = tree
    /\ yml \in {NoFile, [exists |-> TRUE, content |-> OldManifest]}
    /\ snap = NoSnapshot
    /\ ResetIdle /\ BatchIdle /\ ManifestIdle /\ CommandIdle

\* the file and the outcome after a call of create_snapshot
Snapshotted(force, sha1, res) ==
    /\ yml' = res.file
    /\ seen' = tree
    /\ snap' = [called |-> TRUE, force |-> force, sha1 |-> sha1,
                exc |-> res.exc, warnings |-> res.warnings, log |-> res.log,
                before |-> yml, count |-> snap.count + 1]

\* tsrc snapshot [-f] [--sha1]
CreateSnapshot ==
    /\ snap.count < MaxSnapshots
    /\ \E force \in BOOLEAN, sha1 \in BOOLEAN, order \in WalkOrders :
          Snapshotted(force, sha1,
                      LocalManifest_create_snapshot(tree, yml, force, sha1,
                                                    order))
    /\ UNCHANGED <<tree, resetVars, batchVars, manifestVars, command>>

\* git checkout -b dev in one repository of the workspace
CheckoutNewBranch ==
    /\ \E src \in Srcs :
          /\ tree[src].repo.exists
          /\ git_checkout_b(tree[src].repo, "dev").rc = 0
          /\ tree' = [tree EXCEPT ![src].repo =
                         git_checkout_b(tree[src].repo, "dev").repo]
    /\ UNCHANGED <<seen, yml, snap, resetVars, batchVars, manifestVars,
                   command>>

NextSnapshot == CreateSnapshot \/ CheckoutNewBranch

SpecSnapshot == InitSnapshot /\ [][NextSnapshot]_vars

(***************************************************************************)
(* Claims about reset_repo                                                 *)
(***************************************************************************)
LogIndices == 1..Len(outcome.log)

\* neither commit is the other or an ancestor of it
Diverged(h, t) ==
    /\ h # NoCommit /\ t # NoCommit
    /\ ~IsAncestorEq(t, h) /\ ~IsAncestorEq(h, t)

Ran(cmd) == \E i \in LogIndices : outcome.log[i].cmd = cmd

\* C3: when the tracking ref and the current branch have diverged, the
\* fast-forward-only merge fails, reset_repo raises and no hard reset is
\* run; a hard reset is run only right after a merge that succeeded.
C3_ResetOnlyAfterFastForward ==
    outcome.called =>
        \A i \in LogIndices :
            LET e == outcome.log[i]
            IN  /\ (e.cmd = "merge --ff-only" /\ Diverged(e.head, e.arg)) =>
                      /\ e.rc # 0
                      /\ outcome.exc = "CommandError"
                      /\ ~Ran("reset --hard")
                /\ e.cmd = "reset --hard" =>
                      /\ i > 1
                      /\ outcome.log[i - 1].cmd = "merge --ff-only"
                      /\ outcome.log[i - 1].rc = 0

\* a call reached the merge with diverged histories
C3_Witness ==
    /\ outcome.called
    /\ \E i \in LogIndices :
          /\ outcome.log[i].cmd = "merge --ff-only"
          /\ Diverged(outcome.log[i].head, outcome.log[i].arg)

\* the call found no configured upstream for the branch
NoUpstream ==
    \E i \in LogIndices :
        outcome.log[i].cmd = "rev-parse @{upstream}" /\ outcome.log[i].rc # 0

\* the remote branches that contain sha1 and are named <remote>/<branch>,
\* in the order git enumerates them
MatchingCandidates(r, branch, sha1) ==
    SelectSeq(RemoteRefOrder,
              LAMBDA ref : /\ ref \in RemoteBranches
                           /\ ref[2] = branch
                           /\ sha1 \in Commits
                           /\ IsAncestorEq(sha1, RefCommit(r, ref)))

\* C4: for a target with a sha1, without a configured upstream, the tracking ref is the first
\* enumerated remote branch that contains the target commit and whose branch
\* name equals the target branch, and when there is none (whatever the
\* enumeration gives) reset_repo fails with NoTrackingRef and nothing else.
C4_GuessOrNoTrackingRef ==
    (outcome.called /\ NoUpstream /\ target.sha1 # NoneSha) =>
        LET m == MatchingCandidates(repo, target.branch, target.sha1)
        IN  IF m = <<>> THEN outcome.exc = "NoTrackingRef"
            ELSE /\ outcome.tracking_ref = m[1]
                 /\ outcome.exc \notin {"NoTrackingRef", "ValueError", "TypeError"}

\* C5 as stated, on the calls whose fetch succeeded, whose branch has a
\* configured upstream and whose working copy has no local changes: a call
\* on a working copy already at the target succeeds with the description
\* "Reseted to <sha1>".
C5_AlreadyAtTargetSucceeds ==
    (/\ outcome.called /\ outcome.at_target
     /\ \E i \in LogIndices : outcome.log[i].cmd = "fetch" /\ outcome.log[i].rc = 0
     /\ ~NoUpstream /\ repo.changes = "clean") =>
        outcome.exc = NoExc /\ outcome.ret = ResetDescription(target.sha1)

\* C5 amended: every successful call returns "Reseted to <sha1>" and leaves
\* the working copy on the target branch at the target sha1, whatever state
\* it started from; a call on a working copy already at the target, and a
\* call right after a successful one, leave branch and HEAD at the target
\* whether they succeed or raise.
C5_ResetIdempotent ==
    outcome.called =>
        /\ outcome.exc = NoExc =>
              /\ outcome.ret = ResetDescription(target.sha1)
              /\ AtTarget(repo, target)
        /\ outcome.exc # NoExc => outcome.ret = <<>>
        /\ outcome.at_target => AtTarget(repo, target)
        /\ outcome.after_success => AtTarget(repo, target)

\* a second call right after a successful one succeeded again
C5_Witness ==
    /\ outcome.called /\ outcome.after_success /\ outcome.at_target
    /\ outcome.exc = NoExc
    /\ Ran("merge --ff-only") /\ Ran("reset --hard")

(***************************************************************************)
(* Claims about the collectors                                             *)
(***************************************************************************)
\* the outcome map of the collector in use
OutcomeMap == IF collector = "reset" THEN reseted_repos ELSE statuses

\* every repository handed to the collector has been processed
BatchDone == collector # "" /\ index = Len(repos)

DistinctSrcs ==
    \A i, j \in 1..Len(repos) : repos[i].src = repos[j].src => i = j

\* the map has one entry per repository, in the order of the list, each
\* under the repository's src and holding what its own call stored
OneEntryPerRepo ==
    /\ Len(processed) = Len(repos)
    /\ Len(OutcomeMap) = Len(repos)
    /\ \A i \in 1..Len(repos) :
          /\ OutcomeMap[i].key = repos[i].src
          /\ OutcomeMap[i].value = processed[i].stored

\* C1: for any list of N repositories, after the last one is processed the
\* outcome map has exactly N entries, in input order, each holding the
\* result or the error of that repository's operation.
C1_AnyListGivesNEntries == BatchDone => OneEntryPerRepo

\* C1 on the lists whose srcs are pairwise distinct: whatever operations
\* raise, after the last repository is processed
\* the outcome map has exactly N entries, in input order, each holding the
\* result or the error of that repository's operation; every repository is
\* processed whatever the earlier ones raised.
C1_DistinctSrcsGiveNEntries ==
    /\ BatchDone /\ DistinctSrcs => OneEntryPerRepo
    /\ BatchDone => Len(processed) = Len(repos)
    /\ \A i \in 1..Len(processed) : processed[i].src = repos[i].src

\* a list of two repositories whose first operation raised and whose second
\* one returned
C1_Witness ==
    /\ BatchDone /\ DistinctSrcs /\ Len(repos) >= 2
    /\ processed[1].invoked /\ processed[1].stored.exc # NoExc
    /\ processed[2].invoked /\ processed[2].stored.exc = NoExc

\* C2: in both collectors a repository whose working copy does not exist
\* gets the outcome MissingRepo, and neither the operation nor any git
\* command is run for it.
C2_MissingRepoShortCircuits ==
    \A i \in 1..Len(processed) :
        ~processed[i].existed =>
            /\ processed[i].stored = MissingRepo
            /\ ~processed[i].invoked
            /\ processed[i].log = <<>>
            /\ \E k \in 1..Len(OutcomeMap) :
                  /\ OutcomeMap[k].key = processed[i].src
                  /\ i = Len(processed) => OutcomeMap[k].value = MissingRepo

\* a missing repository was processed after one whose operation was invoked
C2_Witness ==
    /\ Len(processed) >= 2
    /\ processed[1].invoked /\ processed[1].log # <<>>
    /\ ~processed[2].existed /\ processed[2].stored = MissingRepo

(***************************************************************************)
(* Claims about the manifest                                               *)
(***************************************************************************)
\* the groups the document declares, and what each includes and lists
DeclaredGroups == {document.groups[i].name : i \in DOMAIN document.groups}

DeclaredGroup(n) ==
    document.groups[CHOOSE i \in DOMAIN document.groups :
                      document.groups[i].name = n]

IncludesOf(n) ==
    IF n \in DeclaredGroups /\ DeclaredGroup(n).includes.present
    THEN Range(DeclaredGroup(n).includes.value) ELSE {}

\* the names reached from the names of S in at most k steps of includes
RECURSIVE ReachedFrom(_, _)
ReachedFrom(S, k) ==
    IF k = 0 THEN S
    ELSE ReachedFrom(S \cup UNION {IncludesOf(n) : n \in S}, k - 1)

Closure(S) == ReachedFrom(S, Cardinality(DeclaredGroups) + 1)

OnCycle(n) == n \in DeclaredGroups /\ n \in Closure(IncludesOf(n))

\* every group met when resolving the names of S is declared, and none of
\* them is on a cycle
AllDeclared(S) == Closure(S) \subseteq DeclaredGroups
Acyclic(S) == \A n \in Closure(S) : ~OnCycle(n)

ResolvedSrcs(S) ==
    UNION {Range(DeclaredGroup(n).repos) : n \in Closure(S) \cap DeclaredGroups}

\* src x sorts before src y
SrcBefore(x, y) == <<x, y>> \in {<<"a", "b">>}

NoExplicitGroups ==
    selection.called /\ ~selection.all_ /\ ~truthy_list(selection.groups)

\* C6: when the manifest declares a group named "default", get_repos with
\* groups None or [] and all_ False returns the repositories whose src is in
\* the default group or in a group it transitively includes, each once, in
\* increasing order of src, and no other repository; when the default group
\* cannot be resolved the call raises the resolver's error.
C6_DefaultGroupSelected ==
    (NoExplicitGroups /\ "default" \in DeclaredGroups) =>
        IF AllDeclared({"default"}) /\ Acyclic({"default"})
        THEN /\ selection.exc = NoExc
             /\ {selection.ret[i].src : i \in DOMAIN selection.ret}
                    = ResolvedSrcs({"default"})
             /\ \A i, j \in DOMAIN selection.ret :
                    i < j => SrcBefore(selection.ret[i].src,
                                       selection.ret[j].src)
             /\ \A i \in DOMAIN selection.ret :
                    selection.ret[i] \in Range(manifest.repos)
        ELSE /\ selection.exc \in {"CyclicGroupReference", "GroupNotFound"}
             /\ selection.ret = <<>>

\* get_repos([]) returned both repositories of a manifest that declares b
\* before a, one of them through an include of the default group
C6_Witness ==
    /\ selection.called /\ ~selection.all_
    /\ selection.groups = Present(<<>>)
    /\ "default" \in DeclaredGroups /\ IncludesOf("default") = {"extra"}
    /\ Range(DeclaredGroup("default").repos) # {"a", "b"}
    /\ Len(manifest.repos) = 2 /\ manifest.repos[1].src = "b"
    /\ selection.exc = NoExc /\ Len(selection.ret) = 2

\* the groups a call of get_repos resolves
ResolvedGroups ==
    IF selection.all_ THEN {}
    ELSE IF truthy_list(selection.groups) THEN Range(selection.groups.value)
    ELSE IF "default" \in DeclaredGroups THEN {"default"} ELSE {}

UrlPresent(data) == data.url.present
UrlNonEmpty(data) == data.url.present /\ data.url.value # ""
RemotesNonEmpty(data) == data.remotes.present /\ data.remotes.value # <<>>

\* C8 as stated: load accepts a document only if each repo config has
\* exactly one of {url present, remotes present and non-empty}; a config with
\* both or with neither makes load fail with a schema error before any Repo
\* is constructed.
C8_ExactlyOnePresent ==
    loaded.called =>
        /\ loaded.exc = NoExc =>
              \A i \in DOMAIN document.repos :
                  UrlPresent(document.repos[i])
                      # RemotesNonEmpty(document.repos[i])
        /\ (\E i \in DOMAIN document.repos :
                UrlPresent(document.repos[i])
                    = RemotesNonEmpty(document.repos[i])) =>
              loaded.exc \in SchemaErrors /\ loaded.constructed = 0

\* C8 amended: load accepts a document only if each repo config has exactly
\* one of {url present and non-empty, remotes present and non-empty}; a
\* config with both or with neither makes load fail with a schema error, and
\* a schema error leaves no Repo constructed and no manifest.
C8_ExactlyOneNonEmpty ==
    loaded.called =>
        /\ loaded.exc = NoExc =>
              \A i \in DOMAIN document.repos :
                  UrlNonEmpty(document.repos[i])
                      # RemotesNonEmpty(document.repos[i])
        /\ (\E i \in DOMAIN document.repos :
                UrlNonEmpty(document.repos[i])
                    = RemotesNonEmpty(document.repos[i])) =>
              loaded.exc \in SchemaErrors
        /\ loaded.exc \in SchemaErrors =>
              loaded.constructed = 0 /\ manifest = Manifest_init

\* a document whose first repo config is valid and whose second has both a
\* url and remotes was rejected
C8_Witness ==
    /\ loaded.called /\ Len(document.repos) = 2
    /\ UrlNonEmpty(document.repos[1]) /\ ~RemotesNonEmpty(document.repos[1])
    /\ document.repos[1].src.present /\ document.repos[2].src.present
    /\ UrlNonEmpty(document.repos[2]) /\ RemotesNonEmpty(document.repos[2])
    /\ loaded.exc = SchemaBoth /\ loaded.constructed = 0

(***************************************************************************)
(* Claims about the snapshot                                               *)
(***************************************************************************)
\* the last snapshot run got past the overwrite guard
GuardPassed == snap.called /\ (~snap.before.exists \/ snap.force)

\* the repositories the last run walked: without any commit, and with a
\* commit and a remote
Unborn == {s \in Srcs : seen[s].repo.exists /\ HeadCommit(seen[s].repo) = NoCommit}
Recordable ==
    {s \in Srcs : /\ seen[s].repo.exists
                  /\ HeadCommit(seen[s].repo) # NoCommit
                  /\ seen[s].remotes # <<>>}

Written == yml.content.repos

HasEntry(s) == \E i \in DOMAIN Written : Written[i].src.value = s

\* C9: with the file present and force false the run fails with "Manifest
\* already found in <path>", the file keeps its content and no repository is
\* inspected; otherwise the file is written and each entry carries the
\* branch its repository was on at the time of the call.
C9_RefusesOrWrites ==
    snap.called =>
        IF snap.before.exists /\ ~snap.force
        THEN /\ snap.exc = AlreadyFound
             /\ yml = snap.before
             /\ snap.log = <<>>
        ELSE /\ snap.exc = NoExc
             /\ yml.exists
             /\ \A s \in Recordable : HasEntry(s)
             /\ \A i \in DOMAIN Written :
                    Written[i].branch.value = seen[Written[i].src.value].repo.cur

\* C10: when a walked repository has no commit, with or without the sha1
\* option, the run still completes: the repository is discarded with a
\* warning and the written document has an entry for every other repository
\* that has a commit and a remote.
C10_NoCommitsDiscarded ==
    (GuardPassed /\ Unborn # {}) =>
        /\ snap.exc = NoExc
        /\ yml.exists
        /\ \A s \in Unborn :
              /\ ~HasEntry(s)
              /\ \E i \in DOMAIN snap.warnings : snap.warnings[i].src = s
        /\ \A s \in Recordable : HasEntry(s)

(***************************************************************************)
(* Claims about the steps of reset_repo                                    *)
(***************************************************************************)
FetchSucceeded ==
    \E i \in LogIndices :
        outcome.log[i].cmd = "fetch" /\ outcome.log[i].rc = 0

\* C14: after a successful fetch, reset_repo checks the target branch out
\* exactly when the branch checked out before the call differs from it (a
\* detached HEAD differs from every branch), and it does so before it asks
\* for the tracking ref.
C14_CheckoutIffBranchDiffers ==
    (outcome.called /\ FetchSucceeded) =>
        /\ Ran("checkout") <=> outcome.branch_before # target.branch
        /\ \A i, j \in LogIndices :
              (/\ outcome.log[i].cmd = "checkout"
               /\ outcome.log[j].cmd = "rev-parse @{upstream}") => i < j

\* the git commands of reset_repo in the order of its steps, and those run
\* with check=True
StepOrder ==
    <<"fetch", "rev-parse --abbrev-ref HEAD", "checkout",
      "rev-parse @{upstream}", "branch -r --contains", "merge --ff-only",
      "reset --hard">>

StepRank(cmd) == CHOOSE k \in DOMAIN StepOrder : StepOrder[k] = cmd

CheckedSteps ==
    {"fetch", "rev-parse --abbrev-ref HEAD", "checkout", "merge --ff-only",
     "reset --hard"}

\* the commands were run in the order of the steps, each at most once
StepsInOrder ==
    \A i, j \in LogIndices :
        i < j => StepRank(outcome.log[i].cmd) < StepRank(outcome.log[j].cmd)

\* fetch, merge and reset were run, a checkout too if the branch differed,
\* and every command run with check=True returned 0
AllStepsSucceeded ==
    /\ Ran("fetch") /\ Ran("rev-parse @{upstream}")
    /\ Ran("merge --ff-only") /\ Ran("reset --hard")
    /\ outcome.branch_before # target.branch => Ran("checkout")
    /\ outcome.tracking_ref # NoRef
    /\ \A i \in LogIndices :
          outcome.log[i].cmd \in CheckedSteps => outcome.log[i].rc = 0

\* a failed step is the last thing the call did
NothingAfterFailure ==
    \A i \in LogIndices :
        (outcome.log[i].cmd \in CheckedSteps /\ outcome.log[i].rc # 0) =>
            i = Len(outcome.log)

\* C16 as stated: a call that returns "Reseted to <sha1>" ran all its steps
\* with success and in order, and leaves the working copy on the target
\* branch at the target sha1 with no local change of any kind, untracked
\* files included; a call with a failed step returns nothing and runs no
\* later step.
C16_SuccessLeavesNoLocalChange ==
    outcome.called =>
        /\ outcome.exc = NoExc =>
              /\ outcome.ret = ResetDescription(target.sha1)
              /\ StepsInOrder /\ AllStepsSucceeded
              /\ AtTarget(repo, target)
              /\ repo.changes = "clean" /\ ~repo.added /\ ~repo.untracked
        /\ outcome.exc # NoExc =>
              outcome.ret = <<>> /\ StepsInOrder /\ NothingAfterFailure

\* C16 amended: a call that returns "Reseted to <sha1>" ran all its steps
\* with success and in order, and leaves the working copy on the target
\* branch at the target sha1 with the changes to tracked files discarded
\* (untracked files stay); a call with a failed step returns nothing and
\* runs no later step.
C16_SuccessDiscardsTrackedChanges ==
    outcome.called =>
        /\ outcome.exc = NoExc =>
              /\ outcome.ret = ResetDescription(target.sha1)
              /\ StepsInOrder /\ AllStepsSucceeded
              /\ AtTarget(repo, target)
              /\ repo.changes = "clean" /\ ~repo.added
        /\ outcome.exc # NoExc =>
              /\ outcome.ret = <<>> /\ StepsInOrder /\ NothingAfterFailure
              /\ ~(Ran("reset --hard") /\ outcome.log[Len(outcome.log)].rc = 0)

\* a call that started on another branch with modified files ran the
\* checkout and every later step, and succeeded
C16_Witness ==
    /\ outcome.called /\ ~outcome.after_success /\ outcome.exc = NoExc
    /\ outcome.branch_before # target.branch
    /\ Ran("checkout") /\ Ran("branch -r --contains")
    /\ \E i \in LogIndices :
          outcome.log[i].cmd = "reset --hard" /\ outcome.log[i].head # target.sha1

(***************************************************************************)
(* Claims about get_status                                                 *)
(***************************************************************************)
\* the calls of StatusCollector.process on a working copy that exists
StatusCalls ==
    {i \in 1..Len(processed) : collector = "status" /\ processed[i].existed}

\* the working copy a call of get_status read (get_status changes nothing)
StatusOf(i) == workspace[processed[i].src]

\* C13: every sub-step of Status.update is best-effort: for every state of
\* an existing working copy get_status returns a Status and raises nothing,
\* with branch = None on a detached HEAD and ahead = behind = 0 when there
\* is no upstream
C13_StatusBestEffort ==
    \A i \in StatusCalls :
        /\ processed[i].stored.exc = NoExc
        /\ StatusOf(i).detached # NoCommit =>
              processed[i].stored.ret.branch = None
        /\ git_rev_parse_upstream(StatusOf(i)).rc # 0 =>
              /\ processed[i].stored.ret.ahead = 0
              /\ processed[i].stored.ret.behind = 0


(***************************************************************************)
(* Manifest.load called again and again on one Manifest object             *)
(***************************************************************************)
MaxLoads == 2

\* the default group of a parsed document: absent, or over srcs "a", "b"
ReloadGroups ==
    {<<>>} \cup
    {<<[name |-> "default", repos |-> r, includes |-> Absent(<<>>)]>> :
        r \in {<<>>, <<"a">>, <<"b">>, <<"a", "b">>}}

\* the parsed documents handed to Manifest.load; they passed the schema
ReloadConfigs ==
    [repos : SeqsUpTo(ValidRepoConfigs, MaxConfigRepos), groups : ReloadGroups]

\* res = Manifest(), no load yet
InitReload ==
    /\ ManifestIdle
    /\ ResetIdle /\ BatchIdle /\ SnapshotIdle /\ CommandIdle

\* the object after load(config) returned or raised
Reloaded(config, res) ==
    /\ document' = config
    /\ manifest' = res.manifest
    /\ loaded' = [called |-> TRUE, exc |-> res.exc,
                  constructed |-> Len(res.manifest.repos)]
    /\ loads' = loads + 1

\* manifest.load(config) on the same Manifest object
ManifestLoad ==
    /\ loads < MaxLoads
    /\ \E config \in ReloadConfigs :
          Reloaded(config, Manifest_load(manifest, config))
    /\ UNCHANGED <<selection, resetVars, batchVars, snapshotVars, command>>

NextReload == ManifestLoad

SpecReload == InitReload /\ [][NextReload]_vars

\* the srcs that the repositories of a parsed document declare
DeclaredSrcs(config) ==
    {config.repos[i].src.value : i \in DOMAIN config.repos}

\* C15: after Manifest.load(config) returned, whatever was loaded into the
\* object before, the repository list is the list that config declares, in
\* its order and with nothing of an earlier load, the copy directives are
\* those of config and the group universe is the set of src of config
C15_ReflectsLatestLoad ==
    (loaded.called /\ loaded.exc = NoExc) =>
        /\ Len(manifest.repos) = Len(document.repos)
        /\ \A i \in DOMAIN document.repos :
              /\ i \in DOMAIN manifest.repos
              /\ manifest.repos[i] =
                    Manifest_handle_repo(Manifest_init,
                                         document.repos[i]).repos[1]
        /\ manifest.copyfiles =
              Manifest_load(Manifest_init, document).manifest.copyfiles
        /\ manifest.group_list.elements = DeclaredSrcs(document)


(***************************************************************************)
(* Claims about a snapshot loaded back as a manifest                       *)
(***************************************************************************)
\* load(manifest_path) on the file of the snapshot
SnapshotLoaded == load(yml.content)

\* get_repos(all_=True) on the manifest loaded from the snapshot
SnapshotRepos ==
    Manifest_get_repos(SnapshotLoaded.manifest, Absent(<<>>), TRUE, <<>>)

\* the urls of a list of remotes, in order
Urls(remotes) == [i \in DOMAIN remotes |-> remotes[i].url]

\* the entry of the document has the form that the remotes of its
\* repository call for: url for one remote, the remotes list for several
FormOf(entry, remotes) ==
    /\ remotes # <<>>
    /\ Len(remotes) = 1 =>
          /\ entry.url = Present(remotes[1].url)
          /\ ~entry.remotes.present
    /\ Len(remotes) > 1 =>
          /\ ~entry.url.present
          /\ entry.remotes = Present(remotes)

\* a Repo of the loaded snapshot carries what was captured of src s
Matches(r, s) ==
    /\ r.src = s
    /\ r.branch = git_rev_parse_abbrev_ref_HEAD(seen[s].repo).out
    /\ Urls(r.remotes) = Urls(seen[s].remotes)

\* C11: for every workspace a snapshot run that is not refused writes a
\* document whose entries each pass validate_repo, with url for one remote
\* and the remotes list for several, and loading the document and calling
\* get_repos(all_=True) gives, for every repository that had a commit and a
\* remote, a Repo with the captured src, branch and remote urls
C11_SnapshotRoundTrip ==
    GuardPassed =>
        /\ snap.exc = NoExc
        /\ yml.exists
        /\ \A i \in DOMAIN Written :
              /\ validate_repo(Written[i]) = NoExc
              /\ FormOf(Written[i], seen[Written[i].src.value].remotes)
        /\ SnapshotLoaded.exc = NoExc
        /\ SnapshotRepos.exc = NoExc
        /\ \A s \in Recordable :
              \E k \in DOMAIN SnapshotRepos.ret :
                  Matches(SnapshotRepos.ret[k], s)


(***************************************************************************)
(* tsrc reset <snapshot>: main of tsrc/cli/reset.py, one call at a time    *)
(***************************************************************************)
\* a working copy as git clone leaves it: on master, at the remote's commit
Cloned ==
    WorkingCopy([cur |-> "master", detached |-> NoCommit,
                 local |-> [b \in Branches |->
                              IF b = "master" THEN 2 ELSE NoCommit],
                 upstream |-> [b \in Branches |->
                                 IF b = "master" THEN OriginMaster
                                 ELSE NoRef]],
                [refs |-> [ref \in RemoteBranches |->
                             IF ref = OriginMaster THEN 2 ELSE NoCommit],
                 origin_head |-> TRUE],
                "clean", FALSE, FALSE, "", 0)

\* missing on disk, freshly cloned, or one commit behind the remote
CommandWorkingCopies ==
    {Missing, Cloned, [Cloned EXCEPT !.local["master"] = 1]}

\* the snapshot files given to tsrc reset: entries that pass validate_repo
\* or not, no group, or a default group that registers, that names an
\* unknown repository, or that includes an unknown group
CommandDocuments ==
    [repos : SeqsUpTo(ValidRepoConfigs \cup
                          {RepoConfig(Present("b"), Absent(""), Absent(<<>>),
                                      Absent(<<>>))},
                      MaxConfigRepos),
     groups : {<<>>,
               <<[name |-> "default", repos |-> <<"a">>,
                  includes |-> Absent(<<>>)]>>,
               <<[name |-> "default", repos |-> <<"zz">>,
                  includes |-> Absent(<<>>)]>>,
               <<[name |-> "default", repos |-> <<"a">>,
                  includes |-> Present(<<"ghost">>)]>>}]

InitCommand ==
    /\ document \in CommandDocuments
    /\ workspace \in [Srcs -> CommandWorkingCopies]
    /\ command = [NotRun EXCEPT !.before = workspace]
    /\ collector = "reset"
    /\ repos = <<>>
    /\ index = 0
    /\ reseted_repos = <<>>
    /\ statuses = <<>>
    /\ processed = <<>>
    /\ manifest = Manifest_init
    /\ loaded = NotLoaded
    /\ selection = NotSelected
    /\ loads = 0
    /\ ResetIdle /\ SnapshotIdle

\* mutant: an exception of a call of main is swallowed and main goes on
proceed_whatever(c, exc, next) ==
    [c EXCEPT !.pc = next, !.exc = exc,
              !.raised_at = IF exc = NoExc THEN @ ELSE c.pc]

\* main after one of its calls: on to the next statement when the call
\* returned; an exception propagates out of main, which has no try
proceed(c, exc, next) ==
    [c EXCEPT !.pc = IF exc = NoExc THEN next ELSE "aborted", !.exc = exc,
              !.raised_at = IF exc = NoExc THEN @ ELSE c.pc]

\* workspace = get_workspace(args); workspace.load_manifest(): it returns,
\* or raises tsrc.Error when the workspace has no manifest
WorkspaceLoadManifest ==
    /\ command.pc = "load_manifest"
    /\ \E exc \in {NoExc, "Error"} : command' = proceed(command, exc, "load")
    /\ UNCHANGED <<resetVars, batchVars, manifestVars, snapshotVars>>

\* snapshot_manifest = tsrc.manifest.load(args.file_path)
SnapshotManifestLoad ==
    /\ command.pc = "load"
    /\ Loaded(load(document))
    /\ command' = proceed(command, load(document).exc, "clone_missing")
    /\ UNCHANGED <<document, selection, resetVars, batchVars, snapshotVars>>

\* the srcs of the manifest that have no working copy in the workspace
missing_srcs(ws, m) ==
    {m.repos[i].src : i \in {j \in DOMAIN m.repos : ~ws[m.repos[j].src].exists}}

\* the workspace after the missing repositories were cloned
clone_missing(ws, m) ==
    [src \in DOMAIN ws |->
        IF src \in missing_srcs(ws, m) THEN Cloned ELSE ws[src]]

\* snapshot_manifest.clone_missing(root_path, shallow): the Manifest class
\* of tsrc/manifest.py defines no clone_missing, so the call raises
\* AttributeError; where the method is supplied from outside these sources
\* it clones the repositories that are missing on disk
CloneMissing ==
    /\ command.pc = "clone_missing"
    /\ \/ /\ command' = proceed(command, "AttributeError", "get_repos")
          /\ UNCHANGED workspace
       \/ /\ command' = [proceed(command, NoExc, "get_repos") EXCEPT
                            !.cloned = missing_srcs(workspace, manifest)]
          /\ workspace' = clone_missing(workspace, manifest)
    /\ UNCHANGED <<repos, index, collector, reseted_repos, statuses, processed,
                   resetVars, manifestVars, snapshotVars>>

\* main after get_repos returned or raised
GotRepos(res) ==
    /\ repos' = res.ret
    /\ command' = proceed(command, res.exc, "run_sequence")

\* snapshot_repos = snapshot_manifest.get_repos(); run_sequence then calls
\* ResetCollector.process on each of them
GetSnapshotRepos ==
    /\ command.pc = "get_repos"
    /\ \E order \in IterationOrders :
          GotRepos(Manifest_get_repos(manifest, Absent(<<>>), FALSE, order))
    /\ UNCHANGED <<workspace, index, collector, reseted_repos, statuses,
                   processed, resetVars, manifestVars, snapshotVars>>

NextCommand ==
    \/ WorkspaceLoadManifest
    \/ SnapshotManifestLoad
    \/ CloneMissing
    \/ GetSnapshotRepos
    \/ ResetProcess

SpecCommand == InitCommand /\ [][NextCommand]_vars

\* a load of main failed: the workspace manifest or the snapshot file
PreflightFailed == command.raised_at \in {"load_manifest", "load"}

\* a repository was cloned, a process call ran git commands or recorded an
\* outcome, or a working copy is not what it was when the command started
RepositoryWork ==
    \/ command.cloned # {}
    \/ processed # <<>>
    \/ reseted_repos # <<>>
    \/ workspace # command.before

\* both loads of main returned
LoadsSucceeded ==
    /\ command.pc \notin {"load_manifest", "load"}
    /\ ~PreflightFailed
    /\ loaded.called /\ loaded.exc = NoExc

\* C12: when the workspace manifest load or the load of the snapshot file
\* (its validation and the registration of its groups) fails, the reset
\* command aborts and no repository is cloned, no git command is run on a
\* repository and no outcome is recorded; all repository work of a run
\* comes after both loads succeeded
C12_PreflightErrorsDoNoWork ==
    /\ (loaded.called /\ loaded.exc # NoExc) => command.raised_at = "load"
    /\ PreflightFailed => (command.pc = "aborted" /\ ~RepositoryWork)
    /\ RepositoryWork => LoadsSucceeded

\* the snapshot declares a repository that is missing on disk and its group
\* names an unknown repository: the load failed and nothing was done
C12_Witness ==
    /\ command.raised_at = "load"
    /\ loaded.exc = "UnknownElement"
    /\ \E i \in DOMAIN document.repos :
          ~workspace[document.repos[i].src.value].exists
    /\ command.pc = "aborted"
    /\ ~RepositoryWork

====
